---- MODULE Spec2Model ----
(***************************************************************************)
(* Chat & Email API (src/main.py): request handlers over a document store. *)
(* Every handler is a sequence of store round trips; requests run          *)
(* concurrently (FastAPI runs sync handlers on a thread pool) and share    *)
(* only the store.  Each store call and each clock read is one step.       *)
(***************************************************************************)
EXTENDS Integers, Sequences, FiniteSets, TLC

VARIABLES
    clock,          \* datetime.now(timezone.utc), as a tick count
    users,          \* db["user"], in insertion order
    conversations,  \* db["conversation"], in insertion order
    messages,       \* db["message"], in insertion order
    emails,         \* db["email"], in insertion order
    reqs,           \* the requests in flight: handler, position, locals
    resp,           \* the response sent last
    served,         \* number of update_email requests taken in
    sdoc,           \* serialize_id: the document first passed in
    sprev,          \* serialize_id: the argument of the last call
    sout,           \* serialize_id: the document, then the last result
    scount          \* serialize_id: number of calls made

vars == <<clock, users, conversations, messages, emails, reqs, resp,
          served, sdoc, sprev, sout, scount>>

storeVars == <<clock, users, conversations, messages, emails, reqs, resp>>
serVars == <<sdoc, sprev, sout, scount>>

(***************************************************************************)
(* Bounds of the model.                                                    *)
(***************************************************************************)
MaxReq == 2        \* requests in flight at once
MaxClock == 1      \* last clock tick
MaxUsers == 3      \* users stored
MaxConvs == 2      \* conversations stored, where listing is checked
MaxConvsSend == 1  \* conversations stored, where messaging is checked
MaxMsgs == 2       \* messages stored, where messaging is checked
MaxMsgsList == 1   \* messages stored, where listing is checked
MaxEmails == 2     \* emails sent, where sending is checked
MaxEmailsPatch == 1 \* emails sent, where patching is checked
MaxPatches == 2    \* update_email requests served
MaxApply == 2      \* successive applications of serialize_id

Slots == 1..MaxReq

None == "None"

(***************************************************************************)
(* ObjectId: 24 hexadecimal characters.  A string is a sequence of         *)
(* one-character strings; an ObjectId value is its lower-case hex form     *)
(* (str(ObjectId(s)) lower-cases s).                                       *)
(***************************************************************************)
OidLen == 24

HexLower == <<"0", "1", "2", "3", "4", "5", "6", "7", "8", "9",
              "a", "b", "c", "d", "e", "f">>
HexUpper == <<"A", "B", "C", "D", "E", "F">>
HexChars == {HexLower[i] : i \in 1..16} \cup {HexUpper[i] : i \in 1..6}

Lower(c) == IF \E i \in 1..6 : HexUpper[i] = c
            THEN HexLower[10 + (CHOOSE i \in 1..6 : HexUpper[i] = c)]
            ELSE c

Upper(c) == IF \E i \in 11..16 : HexLower[i] = c
            THEN HexUpper[(CHOOSE i \in 11..16 : HexLower[i] = c) - 10]
            ELSE c

is_valid(s) == Len(s) = OidLen /\ \A i \in 1..Len(s) : s[i] \in HexChars

ObjectId(s) == [i \in 1..Len(s) |-> Lower(s[i])]

OidStr(oid) == oid

UpperStr(s) == [i \in 1..Len(s) |-> Upper(s[i])]

\* The identifier the store generates for the next document of a collection:
\* documents are never deleted, so the collection's tag and size make it
\* unique across the store.
NewOid(tag, coll) ==
    <<tag>> \o [i \in 1..(OidLen - 3) |-> "a"]
    \o <<HexLower[((Len(coll) \div 16) % 16) + 1], HexLower[(Len(coll) % 16) + 1]>>

\* A well-formed identifier no stored record has, and malformed ones.
MissingId == [i \in 1..OidLen |-> "f"]
ShortId == <<"a", "b", "c">>
NonHexId == [i \in 1..OidLen |-> "g"]
BadIds == {ShortId, NonHexId}

Ids(coll) == {coll[i]._id : i \in 1..Len(coll)}

Free(r) == reqs[r].pc = "idle"

\* Handler threads are interchangeable: a request takes the first free one.
FirstFree(r) == Free(r) /\ \A q \in 1..(r - 1) : ~Free(q)

\* Requests of handler op that are in flight.
InFlight(op) == Cardinality({r \in DOMAIN reqs : reqs[r].op = op /\ ~Free(r)})

Idle == [op |-> "none", pc |-> "idle"]

\* Reading the clock: time may have passed since the last read.
Now == clock..(IF clock < MaxClock THEN clock + 1 ELSE clock)

\* A handler returns (or raises HTTPException): the response goes out and the
\* thread is free again.
Reply(r, answer) ==
    /\ reqs' = [reqs EXCEPT ![r] = Idle]
    /\ resp' = answer

(***************************************************************************)
(* serialize_id.  A document maps field names to values; a value is a      *)
(* record of its type t, its text v (characters) and, for a list, its      *)
(* items.                                                                  *)
(***************************************************************************)
Val(t, v, items) == [t |-> t, v |-> v, items |-> items]

OidVal(oid) == Val("oid", oid, <<>>)
StrVal(chars) == Val("str", chars, <<>>)
DateVal(chars) == Val("dt", chars, <<>>)
ListVal(items) == Val("list", <<>>, items)
NoneVal == Val("none", <<>>, <<>>)
BoolVal(b) == Val("bool", <<IF b THEN "1" ELSE "0">>, <<>>)

\* datetime.isoformat(): date and time joined by "T".
isoformat(x) == StrVal(<<"T">> \o x.v)

\* str(x): an ObjectId gives its 24 hex characters, a str gives itself, None
\* gives "None", a datetime gives date and time joined by a space.
str(x) ==
    CASE x.t = "oid" -> StrVal(OidStr(x.v))
      [] x.t = "str" -> x
      [] x.t = "none" -> StrVal(<<"N", "o", "n", "e">>)
      [] x.t = "dt" -> StrVal(<<" ">> \o x.v)
      [] OTHER -> StrVal(<<"[", "]">>)

\* serialize_id, lines 40-41.
rename_id(d) ==
    IF "_id" \in DOMAIN d
    THEN [k \in (DOMAIN d \ {"_id"}) \cup {"id"} |->
            IF k = "id" THEN str(d["_id"]) ELSE d[k]]
    ELSE d

\* d["id"] = str(d.pop("_id", None))
rename_id_unguarded(d) ==
    [k \in (DOMAIN d \ {"_id"}) \cup {"id"} |->
        IF k = "id"
        THEN (IF "_id" \in DOMAIN d THEN str(d["_id"]) ELSE str(NoneVal))
        ELSE d[k]]

\* serialize_id, lines 43-47: the conversion of one value.
convert(x) ==
    CASE x.t = "dt" -> isoformat(x)
      [] x.t = "list" ->
            ListVal([i \in 1..Len(x.items) |->
                        IF x.items[i].t = "oid" THEN str(x.items[i])
                        ELSE x.items[i]])
      [] OTHER -> x

serialize_id_unguarded(doc) ==
    IF DOMAIN doc = {} THEN doc
    ELSE LET d == rename_id_unguarded(doc)
         IN  [k \in DOMAIN d |-> convert(d[k])]

\* serialize_id, lines 36-48.  None and {} are both falsy: both are the
\* empty document here.
serialize_id(doc) ==
    IF DOMAIN doc = {} THEN doc
    ELSE LET d == rename_id(doc)
         IN  [k \in DOMAIN d |-> convert(d[k])]

EmptyDoc == <<>>

\* The Python value of field k of a stored document, as the handlers built
\* it: _id, conversation_id and sender_id are ObjectIds, participants a list
\* of ObjectIds, to, cc and bcc lists of str, created_at and updated_at
\* datetimes, read a bool, last_message None or a str, the others str.
value(k, v) ==
    IF k \in {"_id", "conversation_id", "sender_id"} THEN OidVal(v)
    ELSE IF k = "participants"
    THEN ListVal([i \in 1..Len(v) |-> OidVal(v[i])])
    ELSE IF k \in {"to", "cc", "bcc"}
    THEN ListVal([i \in 1..Len(v) |-> StrVal(v[i])])
    ELSE IF k \in {"created_at", "updated_at"}
    THEN DateVal(<<HexLower[v + 1]>>)
    ELSE IF k = "read" THEN BoolVal(v)
    ELSE IF v = None THEN NoneVal
    ELSE StrVal(v)

document(doc) == [k \in DOMAIN doc |-> value(k, doc[k])]

\* What a handler returns goes through FastAPI's JSON encoding, which has no
\* encoding for an ObjectId: one left in the value raises ValueError.
encodable(d) ==
    \A k \in DOMAIN d :
        /\ d[k].t # "oid"
        /\ \A i \in 1..Len(d[k].items) : d[k].items[i].t # "oid"

\* return serialize_id(doc): 200 with the document when it can be encoded,
\* 500 when it cannot.
response(op, doc) ==
    LET out == serialize_id(document(doc))
    IN  IF encodable(out)
        THEN [op |-> op, status |-> 200,
              id |-> IF "id" \in DOMAIN out THEN out["id"].v ELSE <<>>]
        ELSE [op |-> op, status |-> 500]

(***************************************************************************)
(* Users                                                                   *)
(***************************************************************************)
Names == {"Ann"}
Addresses == {"a@x.com", "b@x.com"}

matched_count(coll, oid) ==
    IF \E i \in 1..Len(coll) : coll[i]._id = oid THEN 1 ELSE 0

FirstMatch(coll, oid) ==
    CHOOSE i \in 1..Len(coll) :
        /\ coll[i]._id = oid
        /\ \A j \in 1..(i - 1) : coll[j]._id # oid

\* find_one({"_id": oid}): the first match, None when there is none.
find_one(coll, oid) ==
    IF matched_count(coll, oid) = 0 THEN EmptyDoc
    ELSE coll[FirstMatch(coll, oid)]

\* insert_one: the store assigns _id.
insert_one(coll, doc, oid) == Append(coll, [_id |-> oid] @@ doc)

\* create_user, line 109: find_one({"email": payload.email}).
find_user_by_email(email) == \E i \in 1..Len(users) : users[i].email = email

\* database.create_document: inserts the document, returns its id as text.
create_document(coll, data, oid) == insert_one(coll, data, oid)

\* create_user, lines 109-111: find_one by email, 400 if a user has it.
CreateUserFind(r, name, email) ==
    /\ FirstFree(r)
    /\ IF find_user_by_email(email)
       THEN Reply(r, [op |-> "create_user", status |-> 400])
       ELSE /\ reqs' = [reqs EXCEPT ![r] =
                        [op |-> "create_user", pc |-> "insert",
                         name |-> name, email |-> email]]
            /\ UNCHANGED resp
    /\ UNCHANGED <<clock, users, conversations, messages, emails>>
    /\ UNCHANGED <<served, serVars>>

\* create_user, line 112: create_document("user", {...}).
CreateUserInsert(r) ==
    /\ reqs[r].op = "create_user" /\ reqs[r].pc = "insert"
    /\ users' = create_document(users,
                    [name |-> reqs[r].name, email |-> reqs[r].email],
                    NewOid("0", users))
    /\ reqs' = [reqs EXCEPT ![r] =
                 [op |-> "create_user", pc |-> "fetch",
                  user_id |-> OidStr(NewOid("0", users))]]
    /\ UNCHANGED <<clock, conversations, messages, emails, resp>>
    /\ UNCHANGED <<served, serVars>>

\* create_user, lines 113-114: find_one by _id, return it.
CreateUserFetch(r) ==
    /\ reqs[r].op = "create_user" /\ reqs[r].pc = "fetch"
    /\ Reply(r, response("create_user",
                          find_one(users, ObjectId(reqs[r].user_id))))
    /\ UNCHANGED <<clock, users, conversations, messages, emails>>
    /\ UNCHANGED <<served, serVars>>

\* list_users, lines 118-119.
list_users == users

\* Registrations start while fewer than MaxUsers users are stored or coming.
UserNext ==
    \/ /\ Len(users) + InFlight("create_user") < MaxUsers
       /\ \E r \in Slots, n \in Names, e \in Addresses :
             CreateUserFind(r, n, e)
    \/ \E r \in Slots : CreateUserInsert(r)
    \/ \E r \in Slots : CreateUserFetch(r)

(***************************************************************************)
(* Sorting as the store's cursor sort does it: by one key, ascending (1)   *)
(* or descending (-1); documents with equal keys keep the store's order.   *)
(***************************************************************************)
Before(seq, i, j, key, dir) ==
    \/ (dir = 1 /\ seq[j][key] < seq[i][key])
    \/ (dir = -1 /\ seq[j][key] > seq[i][key])
    \/ (seq[j][key] = seq[i][key] /\ j < i)

Rank(seq, i, key, dir) ==
    Cardinality({j \in 1..Len(seq) : Before(seq, i, j, key, dir)}) + 1

sort(seq, key, dir) ==
    [p \in 1..Len(seq) |->
        seq[CHOOSE i \in 1..Len(seq) : Rank(seq, i, key, dir) = p]]

find(coll, Match(_)) == SelectSeq(coll, Match)

Contains(seq, x) == \E i \in 1..Len(seq) : seq[i] = x

(***************************************************************************)
(* Conversations and messages                                              *)
(***************************************************************************)
UserA == [i \in 1..OidLen |-> "b"]
UserB == [i \in 1..OidLen |-> "c"]
UserC == [i \in 1..OidLen |-> "1"]

CreateConversationInputs ==
    { [participant_ids |-> <<UserA, UserB>>, title |-> None],
      [participant_ids |-> <<UpperStr(UserB), UserC>>, title |-> "Team"],
      [participant_ids |-> <<UserA>>, title |-> None],
      [participant_ids |-> <<UserA, ShortId>>, title |-> "Team"] }

Contents == {"m1", "m2"}

\* create_conversation, lines 126-129.
participants_valid(pids) == \A i \in 1..Len(pids) : is_valid(pids[i])

participant_oids(pids) == [i \in 1..Len(pids) |-> ObjectId(pids[i])]

\* CreateConversation.participant_ids: Field(..., min_items=2), line 56.
MinParticipants == 2

\* create_conversation, line 132: payload.title or "Conversation".
title_or_default(title) ==
    IF title = None \/ title = "" THEN "Conversation" ELSE title

\* create_conversation, lines 130-136: the document, with its two clock
\* reads.
conv_doc(p, created_at, updated_at) ==
    [participants |-> participant_oids(p.participant_ids),
     title |-> title_or_default(p.title),
     last_message |-> None,
     created_at |-> created_at,
     updated_at |-> updated_at]

\* create_conversation, lines 124-134: validation, then created_at is read.
CreateConversationStart(r, p) ==
    /\ FirstFree(r)
    /\ IF Len(p.participant_ids) < MinParticipants
       THEN /\ Reply(r, [op |-> "create_conversation", status |-> 422])
            /\ UNCHANGED clock
       ELSE IF ~participants_valid(p.participant_ids)
       THEN /\ Reply(r, [op |-> "create_conversation", status |-> 400])
            /\ UNCHANGED clock
       ELSE /\ \E t \in Now :
                /\ clock' = t
                /\ reqs' = [reqs EXCEPT ![r] =
                            [op |-> "create_conversation", pc |-> "stamp",
                             payload |-> p, created_at |-> t]]
            /\ UNCHANGED resp
    /\ UNCHANGED <<users, conversations, messages, emails>>
    /\ UNCHANGED <<served, serVars>>

\* create_conversation, line 135: updated_at is a second clock read.
CreateConversationStamp(r) ==
    /\ reqs[r].op = "create_conversation" /\ reqs[r].pc = "stamp"
    /\ \E t \in Now :
        /\ clock' = t
        /\ reqs' = [reqs EXCEPT ![r] =
                    [op |-> "create_conversation", pc |-> "insert",
                     conv |-> conv_doc(reqs[r].payload,
                                       reqs[r].created_at, t)]]
    /\ UNCHANGED <<users, conversations, messages, emails, resp>>
    /\ UNCHANGED <<served, serVars>>

\* create_conversation, line 137: insert_one.
CreateConversationInsert(r) ==
    /\ reqs[r].op = "create_conversation" /\ reqs[r].pc = "insert"
    /\ conversations' = insert_one(conversations, reqs[r].conv,
                                   NewOid("c", conversations))
    /\ reqs' = [reqs EXCEPT ![r] =
                [op |-> "create_conversation", pc |-> "fetch",
                 inserted_id |-> NewOid("c", conversations)]]
    /\ UNCHANGED <<clock, users, messages, emails, resp>>
    /\ UNCHANGED <<served, serVars>>

\* create_conversation, lines 138-139: find_one by _id, return it.
CreateConversationFetch(r) ==
    /\ reqs[r].op = "create_conversation" /\ reqs[r].pc = "fetch"
    /\ Reply(r, response("create_conversation",
                          find_one(conversations, reqs[r].inserted_id)))
    /\ UNCHANGED <<clock, users, conversations, messages, emails>>
    /\ UNCHANGED <<served, serVars>>

\* list_conversations, lines 143-145: the filter.  An absent user_id and
\* the empty string are both falsy; both are the empty sequence here.
conversation_filter(user_id, c) ==
    IF user_id # <<>> /\ is_valid(user_id)
    THEN Contains(c.participants, ObjectId(user_id))
    ELSE TRUE

list_conversations_asc(user_id) ==
    LET Match(c) == conversation_filter(user_id, c)
    IN  sort(find(conversations, Match), "updated_at", 1)

\* list_conversations, lines 146-147.
list_conversations(user_id) ==
    LET Match(c) == conversation_filter(user_id, c)
    IN  sort(find(conversations, Match), "updated_at", -1)

\* list_messages, line 162: the messages of a conversation, oldest first.
msgs(conversation_id) ==
    LET Match(m) == m.conversation_id = ObjectId(conversation_id)
    IN  sort(find(messages, Match), "created_at", 1)

\* list_messages, lines 160-163: 400 for a malformed id; the serialized
\* messages keep their ObjectIds, so a listing that is not empty cannot be
\* encoded.
list_messages(conversation_id) ==
    IF ~is_valid(conversation_id) THEN [status |-> 400]
    ELSE LET found == msgs(conversation_id)
             out == [i \in 1..Len(found) |-> serialize_id(document(found[i]))]
         IN  IF \A i \in 1..Len(out) : encodable(out[i])
             THEN [status |-> 200, body |-> out]
             ELSE [status |-> 500]

\* get_conversation, lines 151-156.
get_conversation(conversation_id) ==
    IF ~is_valid(conversation_id) THEN [status |-> 400]
    ELSE LET Match(c) == c._id = ObjectId(conversation_id)
             found == find(conversations, Match)
         IN  IF found = <<>> THEN [status |-> 404]
             ELSE [status |-> 200, doc |-> found[1]]

\* update_one({"_id": oid}, {"$set": set}): the first match, no upsert.
update_one(coll, oid, set) ==
    IF matched_count(coll, oid) = 1
    THEN [coll EXCEPT ![FirstMatch(coll, oid)] = set @@ @]
    ELSE coll

\* The conversation ids a client can send: those it was given, in either
\* letter case, one no record has, and malformed ones.
ConversationIdInputs ==
    {OidStr(conversations[i]._id) : i \in 1..Len(conversations)}
    \cup {UpperStr(OidStr(conversations[i]._id)) : i \in 1..Len(conversations)}
    \cup {MissingId} \cup BadIds

SenderIdInputs == {UserA, ShortId}

\* send_message, lines 169-174: the message document.
message_doc(conversation_id, sender_id, content, t) ==
    [conversation_id |-> ObjectId(conversation_id),
     sender_id |-> ObjectId(sender_id),
     content |-> content,
     created_at |-> t]

\* send_message, lines 167-174: validation, then the message is built and
\* created_at read.
SendMessageStart(r, conversation_id, sender_id, content) ==
    /\ FirstFree(r)
    /\ IF ~is_valid(conversation_id) \/ ~is_valid(sender_id)
       THEN /\ Reply(r, [op |-> "send_message", status |-> 400])
            /\ UNCHANGED clock
       ELSE /\ \E t \in Now :
                /\ clock' = t
                /\ reqs' = [reqs EXCEPT ![r] =
                            [op |-> "send_message", pc |-> "insert",
                             message |-> message_doc(conversation_id,
                                            sender_id, content, t)]]
            /\ UNCHANGED resp
    /\ UNCHANGED <<users, conversations, messages, emails>>
    /\ UNCHANGED <<served, serVars>>

\* send_message, line 175: insert_one.
SendMessageInsert(r) ==
    /\ reqs[r].op = "send_message" /\ reqs[r].pc = "insert"
    /\ messages' = insert_one(messages, reqs[r].message, NewOid("d", messages))
    /\ reqs' = [reqs EXCEPT ![r] =
                [op |-> "send_message", pc |-> "stamp",
                 conversation_id |-> reqs[r].message.conversation_id,
                 content |-> reqs[r].message.content,
                 inserted_id |-> NewOid("d", messages)]]
    /\ UNCHANGED <<clock, users, conversations, emails, resp>>
    /\ UNCHANGED <<served, serVars>>

\* send_message, line 179: the clock is read for updated_at.
SendMessageStamp(r) ==
    /\ reqs[r].op = "send_message" /\ reqs[r].pc = "stamp"
    /\ \E t \in Now :
        /\ clock' = t
        /\ reqs' = [reqs EXCEPT ![r] =
                    [op |-> "send_message", pc |-> "update",
                     conversation_id |-> reqs[r].conversation_id,
                     content |-> reqs[r].content,
                     inserted_id |-> reqs[r].inserted_id, updated_at |-> t]]
    /\ UNCHANGED <<users, conversations, messages, emails, resp>>
    /\ UNCHANGED <<served, serVars>>

\* send_message, line 179: the conversation's $set.
conversation_set(q) ==
    [last_message |-> q.content, updated_at |-> q.updated_at]

\* send_message, lines 177-180.
update_conversation(q) ==
    update_one(conversations, q.conversation_id, conversation_set(q))

\* send_message, lines 177-180: update_one on the conversation.
SendMessageUpdate(r) ==
    /\ reqs[r].op = "send_message" /\ reqs[r].pc = "update"
    /\ conversations' = update_conversation(reqs[r])
    /\ reqs' = [reqs EXCEPT ![r] =
                [op |-> "send_message", pc |-> "fetch",
                 inserted_id |-> reqs[r].inserted_id]]
    /\ UNCHANGED <<clock, users, messages, emails, resp>>
    /\ UNCHANGED <<served, serVars>>

\* send_message, lines 181-182: find_one by _id, return it.  The message
\* keeps its ObjectIds conversation_id and sender_id through serialize_id,
\* so the response cannot be encoded.
SendMessageFetch(r) ==
    /\ reqs[r].op = "send_message" /\ reqs[r].pc = "fetch"
    /\ Reply(r, response("send_message",
                          find_one(messages, reqs[r].inserted_id)))
    /\ UNCHANGED <<clock, users, conversations, messages, emails>>
    /\ UNCHANGED <<served, serVars>>

CreateConversationNext(max) ==
    \/ /\ Len(conversations) + InFlight("create_conversation") < max
       /\ \E r \in Slots, p \in CreateConversationInputs :
             CreateConversationStart(r, p)
    \/ \E r \in Slots : CreateConversationStamp(r)
    \/ \E r \in Slots : CreateConversationInsert(r)
    \/ \E r \in Slots : CreateConversationFetch(r)

SendMessageNext(max) ==
    \/ /\ Len(messages) + InFlight("send_message") < max
       /\ \E r \in Slots, c \in ConversationIdInputs, s \in SenderIdInputs,
             m \in Contents : SendMessageStart(r, c, s, m)
    \/ \E r \in Slots : SendMessageInsert(r)
    \/ \E r \in Slots : SendMessageStamp(r)
    \/ \E r \in Slots : SendMessageUpdate(r)
    \/ \E r \in Slots : SendMessageFetch(r)

\* Messaging: few conversations, concurrent sends.
SendNext == CreateConversationNext(MaxConvsSend) \/ SendMessageNext(MaxMsgs)

\* Listing: several conversations, few messages.
ListNext == CreateConversationNext(MaxConvs) \/ SendMessageNext(MaxMsgsList)

(***************************************************************************)
(* Email                                                                   *)
(***************************************************************************)
Folders == {"inbox", "sent", "drafts", "trash", "archived"}

\* SendEmail payloads; cc and bcc default to [].
SendEmailInputs ==
    { [sender |-> "a@x.com", to |-> <<"b@x.com", "c@x.com">>,
       cc |-> <<"d@x.com">>, bcc |-> <<>>, subject |-> "Hi", body |-> "Hello"],
      [sender |-> "a@x.com", to |-> <<"b@x.com", "b@x.com">>,
       cc |-> <<>>, bcc |-> <<"d@x.com">>, subject |-> "Re", body |-> "Bye"],
      [sender |-> "b@x.com", to |-> <<>>,
       cc |-> <<"a@x.com">>, bcc |-> <<>>, subject |-> "Hi", body |-> "Hello"] }

\* The payload that is sent where patching is checked.
PatchedEmailInputs == {p \in SendEmailInputs : Len(p.to) = 2 /\ p.to[1] # p.to[2]}

\* create_email, lines 187-198: the sender's record, with its two clock reads.
email_doc(p, created_at, updated_at) ==
    [sender |-> p.sender, to |-> p.to, cc |-> p.cc, bcc |-> p.bcc,
     subject |-> p.subject, body |-> p.body,
     read |-> FALSE, folder |-> "sent",
     created_at |-> created_at, updated_at |-> updated_at]

\* dict.pop(key, None)
pop(d, key) == [k \in DOMAIN d \ {key} |-> d[k]]

recipients_with_cc(doc) == doc.to \o doc.cc

\* create_email, line 203: for recipient in email_doc["to"].
recipients(doc) == doc.to

\* create_email, lines 204 and 207-208: one recipient's copy.  email_doc
\* holds the _id insert_one gave it; the copy drops it.
inbox_doc(doc, recipient, now) ==
    pop([folder |-> "inbox", owner |-> recipient,
         created_at |-> now, updated_at |-> now] @@ doc, "_id")

\* create_email, lines 201-208.
inbox_docs(doc, now) ==
    [i \in 1..Len(recipients(doc)) |-> inbox_doc(doc, recipients(doc)[i], now)]

\* create_email, lines 187-196: the record is built, created_at read.
CreateEmailStart(r, p) ==
    /\ FirstFree(r)
    /\ \E t \in Now :
        /\ clock' = t
        /\ reqs' = [reqs EXCEPT ![r] =
                    [op |-> "create_email", pc |-> "stamp",
                     payload |-> p, created_at |-> t]]
    /\ UNCHANGED <<users, conversations, messages, emails, resp>>
    /\ UNCHANGED <<served, serVars>>

\* create_email, line 197: updated_at is a second clock read.
CreateEmailStamp(r) ==
    /\ reqs[r].op = "create_email" /\ reqs[r].pc = "stamp"
    /\ \E t \in Now :
        /\ clock' = t
        /\ reqs' = [reqs EXCEPT ![r] =
                    [op |-> "create_email", pc |-> "insert",
                     payload |-> reqs[r].payload,
                     email_doc |-> email_doc(reqs[r].payload,
                                             reqs[r].created_at, t)]]
    /\ UNCHANGED <<users, conversations, messages, emails, resp>>
    /\ UNCHANGED <<served, serVars>>

\* create_email, line 199: insert_one; the driver puts _id into email_doc.
CreateEmailInsert(r) ==
    /\ reqs[r].op = "create_email" /\ reqs[r].pc = "insert"
    /\ emails' = insert_one(emails, reqs[r].email_doc, NewOid("e", emails))
    /\ reqs' = [reqs EXCEPT ![r] =
                [op |-> "create_email", pc |-> "now",
                 payload |-> reqs[r].payload,
                 email_doc |-> [_id |-> NewOid("e", emails)]
                               @@ reqs[r].email_doc]]
    /\ UNCHANGED <<clock, users, conversations, messages, resp>>
    /\ UNCHANGED <<served, serVars>>

\* create_email, lines 201-208: the clock is read, the copies are built.
CreateEmailNow(r) ==
    /\ reqs[r].op = "create_email" /\ reqs[r].pc = "now"
    /\ \E t \in Now :
        /\ clock' = t
        /\ reqs' = [reqs EXCEPT ![r] =
                    [op |-> "create_email",
                     pc |-> IF inbox_docs(reqs[r].email_doc, t) # <<>>
                            THEN "fanout" ELSE "fetch",
                     payload |-> reqs[r].payload,
                     email_doc |-> reqs[r].email_doc,
                     inbox_docs |-> inbox_docs(reqs[r].email_doc, t),
                     inserted_ids |-> <<>>]]
    /\ UNCHANGED <<users, conversations, messages, emails, resp>>
    /\ UNCHANGED <<served, serVars>>

\* create_email, line 209: insert_many writes the copies one document after
\* the other, in order; each write is visible as soon as it is made.
CreateEmailInsertMany(r) ==
    /\ reqs[r].op = "create_email" /\ reqs[r].pc = "fanout"
    /\ LET k == Len(reqs[r].inserted_ids) + 1
       IN  /\ emails' = insert_one(emails, reqs[r].inbox_docs[k],
                                   NewOid("e", emails))
           /\ reqs' = [reqs EXCEPT ![r] =
                       [op |-> "create_email",
                        pc |-> IF k < Len(reqs[r].inbox_docs)
                               THEN "fanout" ELSE "fetch",
                        payload |-> reqs[r].payload,
                        email_doc |-> reqs[r].email_doc,
                        inbox_docs |-> reqs[r].inbox_docs,
                        inserted_ids |-> Append(reqs[r].inserted_ids,
                                                NewOid("e", emails))]]
    /\ UNCHANGED <<clock, users, conversations, messages, resp>>
    /\ UNCHANGED <<served, serVars>>

\* create_email, line 210: find_one by the sent record's _id, return it.
CreateEmailFetch(r) ==
    /\ reqs[r].op = "create_email" /\ reqs[r].pc = "fetch"
    /\ Reply(r, response("create_email",
                          find_one(emails, reqs[r].email_doc._id)))
    /\ UNCHANGED <<clock, users, conversations, messages, emails>>
    /\ UNCHANGED <<served, serVars>>

on_failure_rollback(coll, q) ==
    IF "_id" \in DOMAIN q.email_doc
    THEN LET Keep(e) == e._id # q.email_doc._id IN SelectSeq(coll, Keep)
    ELSE coll

\* create_email, lines 199-210: no try/except around the store calls; when
\* one raises, what was written stays.
on_failure(coll, q) == coll

\* create_email, lines 199, 209, 210: a store call raises (the store is
\* unreachable): the exception leaves the handler, a 500 is answered.
CreateEmailFail(r) ==
    /\ reqs[r].op = "create_email"
    /\ reqs[r].pc \in {"insert", "fanout", "fetch"}
    /\ emails' = on_failure(emails, reqs[r])
    /\ Reply(r, [op |-> "create_email", status |-> 500])
    /\ UNCHANGED <<clock, users, conversations, messages>>
    /\ UNCHANGED <<served, serVars>>

\* list_emails, lines 214-218: the filter.  An absent parameter and the
\* empty string are both falsy; both are "" here.
email_filter(owner, folder, e) ==
    /\ owner # "" => ("owner" \in DOMAIN e /\ e.owner = owner)
    /\ folder # "" => e.folder = folder

\* list_emails, lines 219-220.
list_emails(owner, folder) ==
    LET Match(e) == email_filter(owner, folder, e)
    IN  sort(find(emails, Match), "created_at", -1)

\* UpdateEmailStatus payloads: the fields that are not None.
UpdateInputs ==
    { <<>>, [read |-> TRUE], [folder |-> "trash"],
      [read |-> TRUE, folder |-> "spam"] }

EmailIdInputs ==
    {OidStr(emails[i]._id) : i \in 1..Len(emails)}
    \cup {UpperStr(OidStr(emails[i]._id)) : i \in 1..Len(emails)}
    \cup {MissingId, ShortId}

build_updates_all(payload, now) ==
    payload @@ [updated_at |-> now, read |-> FALSE]

\* update_email, lines 226-230.
build_updates(payload, now) == payload @@ [updated_at |-> now]

\* update_email, lines 224-226: validation, then the clock is read.
UpdateEmailStart(r, email_id, payload) ==
    /\ FirstFree(r)
    /\ IF ~is_valid(email_id)
       THEN /\ Reply(r, [op |-> "update_email", status |-> 400])
            /\ UNCHANGED clock
       ELSE /\ \E t \in Now :
                /\ clock' = t
                /\ reqs' = [reqs EXCEPT ![r] =
                            [op |-> "update_email", pc |-> "update",
                             email_id |-> ObjectId(email_id),
                             payload |-> payload, now |-> t]]
            /\ UNCHANGED resp
    /\ UNCHANGED <<users, conversations, messages, emails>>
    /\ served' = served + 1
    /\ UNCHANGED serVars

\* update_email, lines 227-233: update_one, 404 when nothing matched.
UpdateEmailUpdate(r) ==
    /\ reqs[r].op = "update_email" /\ reqs[r].pc = "update"
    /\ emails' = update_one(emails, reqs[r].email_id,
                            build_updates(reqs[r].payload, reqs[r].now))
    /\ IF matched_count(emails, reqs[r].email_id) = 0
       THEN Reply(r, [op |-> "update_email", status |-> 404])
       ELSE /\ reqs' = [reqs EXCEPT ![r] =
                        [op |-> "update_email", pc |-> "fetch",
                         email_id |-> reqs[r].email_id]]
            /\ UNCHANGED resp
    /\ UNCHANGED <<clock, users, conversations, messages>>
    /\ UNCHANGED <<served, serVars>>

\* update_email, lines 234-235: find_one by _id, return it.
UpdateEmailFetch(r) ==
    /\ reqs[r].op = "update_email" /\ reqs[r].pc = "fetch"
    /\ Reply(r, response("update_email",
                          find_one(emails, reqs[r].email_id)))
    /\ UNCHANGED <<clock, users, conversations, messages, emails>>
    /\ UNCHANGED <<served, serVars>>

\* Sends that put their sent record into the store, or still may.
SendsAdmitted ==
    Cardinality({i \in 1..Len(emails) : "owner" \notin DOMAIN emails[i]})
    + Cardinality({r \in Slots : reqs[r].op = "create_email"
                                 /\ reqs[r].pc \in {"stamp", "insert"}})

CreateEmailNext(max, inputs) ==
    \/ /\ SendsAdmitted < max
       /\ \E r \in Slots, p \in inputs : CreateEmailStart(r, p)
    \/ \E r \in Slots : CreateEmailStamp(r)
    \/ \E r \in Slots : CreateEmailInsert(r)
    \/ \E r \in Slots : CreateEmailNow(r)
    \/ \E r \in Slots : CreateEmailInsertMany(r)
    \/ \E r \in Slots : CreateEmailFetch(r)
    \/ \E r \in Slots : CreateEmailFail(r)

UpdateEmailNext ==
    \/ /\ served < MaxPatches
       /\ \E r \in Slots, id \in EmailIdInputs, p \in UpdateInputs :
             UpdateEmailStart(r, id, p)
    \/ \E r \in Slots : UpdateEmailUpdate(r)
    \/ \E r \in Slots : UpdateEmailFetch(r)

\* Sending: concurrent sends, no patching.
MailNext == CreateEmailNext(MaxEmails, SendEmailInputs)

\* Patching: one send, concurrent patches.
PatchNext == CreateEmailNext(MaxEmailsPatch, PatchedEmailInputs) \/ UpdateEmailNext

(***************************************************************************)
(* serialize_id: the documents it is handed                                *)
(***************************************************************************)
\* The values a field can hold, and the documents passed in.
FieldInputs ==
    [_id |-> {OidVal(UserA)},
     id |-> {StrVal(<<"x">>)},
     created_at |-> {DateVal(<<"1">>), isoformat(DateVal(<<"1">>))},
     participants |-> {ListVal(<<>>), ListVal(<<OidVal(UserA), OidVal(UserB)>>),
                       ListVal(<<StrVal(OidStr(UserA)), OidVal(UserB)>>)},
     last_message |-> {NoneVal, StrVal(<<"h", "i">>)}]

DocInputs ==
    UNION {{d \in [D -> UNION {FieldInputs[k] : k \in DOMAIN FieldInputs}] :
               \A k \in D : d[k] \in FieldInputs[k]} :
           D \in SUBSET DOMAIN FieldInputs}

\* One call of serialize_id, on the result of the call before.
Serialize ==
    /\ scount < MaxApply
    /\ sprev' = sout
    /\ sout' = serialize_id(sout)
    /\ scount' = scount + 1
    /\ UNCHANGED <<sdoc, served>>
    /\ UNCHANGED storeVars

Init ==
    /\ clock = 0
    /\ users = <<>>
    /\ conversations = <<>>
    /\ messages = <<>>
    /\ emails = <<>>
    /\ reqs = [r \in Slots |-> Idle]
    /\ resp = [op |-> "none", status |-> 0]
    /\ served = 0
    /\ sdoc = EmptyDoc
    /\ sprev = EmptyDoc
    /\ sout = EmptyDoc
    /\ scount = 0

\* serialize_id is handed any of the documents.
SerializeInit ==
    /\ clock = 0
    /\ users = <<>>
    /\ conversations = <<>>
    /\ messages = <<>>
    /\ emails = <<>>
    /\ reqs = [r \in Slots |-> Idle]
    /\ resp = [op |-> "none", status |-> 0]
    /\ served = 0
    /\ sdoc \in DocInputs
    /\ sprev = sdoc
    /\ sout = sdoc
    /\ scount = 0

\* The whole API.  The collections are independent of one another, so each
\* feature is checked under a specification of its own handlers.
Next ==
    \/ UserNext
    \/ CreateConversationNext(MaxConvs)
    \/ SendMessageNext(MaxMsgs)
    \/ CreateEmailNext(MaxEmails, SendEmailInputs)
    \/ UpdateEmailNext
    \/ Serialize

Spec == Init /\ [][Next]_vars

SpecSerialize == SerializeInit /\ [][Serialize]_vars

SpecUsers == Init /\ [][UserNext]_vars

SpecSend == Init /\ [][SendNext]_vars

SpecList == Init /\ [][ListNext]_vars

SpecMail == Init /\ [][MailNext]_vars

SpecPatch == Init /\ [][PatchNext]_vars

\* C2: user email is unique: no two stored user records have the same
\* email, in every reachable state, concurrent registrations included.
C2_EmailUnique ==
    \A i, j \in 1..Len(users) : users[i].email = users[j].email => i = j

Range(seq) == {seq[i] : i \in 1..Len(seq)}

(***************************************************************************)
(* Conversations and messages: properties                                  *)
(***************************************************************************)

\* C3: the stored updated_at of a conversation never decreases, whatever
\* the interleaving of send_message requests on it.
C3_UpdatedAtNeverDecreases ==
    [][\A i \in 1..Len(conversations) :
          conversations'[i].updated_at >= conversations[i].updated_at]_vars

\* C4: when no send_message is in flight, the last_message of every
\* conversation that has messages is the content of a message of it with the
\* greatest created_at.
C4_LastMessageIsLatest ==
    InFlight("send_message") = 0 =>
        \A i \in 1..Len(conversations) :
            LET c == conversations[i]
                ms == msgs(OidStr(c._id))
            IN  ms # <<>> =>
                    \E k \in 1..Len(ms) :
                        /\ ms[k].created_at = ms[Len(ms)].created_at
                        /\ ms[k].content = c.last_message

\* What C8 says of one step of request r.
C8_Step(r) ==
    /\ \A c \in ConversationIdInputs, s \in SenderIdInputs, m \in Contents :
          SendMessageStart(r, c, s, m) =>
              /\ messages' = messages /\ conversations' = conversations
              /\ (~is_valid(c) \/ ~is_valid(s)) <=>
                     (Free(r)' /\ resp' = [op |-> "send_message",
                                           status |-> 400])
    /\ SendMessageInsert(r) =>
          /\ Len(messages') = Len(messages) + 1
          /\ SubSeq(messages', 1, Len(messages)) = messages
          /\ conversations' = conversations
    /\ SendMessageStamp(r) =>
          messages' = messages /\ conversations' = conversations
    /\ SendMessageUpdate(r) =>
          /\ messages' = messages
          /\ reqs[r].conversation_id \notin Ids(conversations) =>
                conversations' = conversations
    /\ SendMessageFetch(r) =>
          /\ messages' = messages /\ conversations' = conversations
          /\ resp'.op = "send_message" /\ resp'.status = 200
          /\ Cardinality({k \in 1..Len(messages) :
                 OidStr(messages[k]._id) = resp'.id}) = 1

\* C8: a send_message with a malformed id answers 400 and changes neither
\* collection; with well-formed ids it inserts exactly one message, returns
\* it, and when no conversation has the id it leaves the conversation
\* collection as it was.
C8_SendToMissingConversation == [][\A r \in Slots : C8_Step(r)]_vars

\* The user_id values a client can pass to list_conversations: absent,
\* participants in either letter case, a stranger, malformed ones.
UserIdInputs ==
    {<<>>, UserA, UpperStr(UserA), UserB, UserC, MissingId, ShortId, NonHexId}

LowerCase(s) == [i \in 1..Len(s) |-> Lower(s[i])]

WellFormed(s) ==
    /\ Len(s) = 24
    /\ \A i \in 1..Len(s) :
          s[i] \in {"0", "1", "2", "3", "4", "5", "6", "7", "8", "9",
                    "a", "b", "c", "d", "e", "f",
                    "A", "B", "C", "D", "E", "F"}

\* C9: list_conversations(user_id) returns exactly the conversations whose
\* participants contain a well-formed user_id, all of them otherwise, each
\* once, by updated_at descending.
C9_ListConversations ==
    \A u \in UserIdInputs :
        LET res == list_conversations(u)
            want == IF WellFormed(u)
                    THEN {c \in Range(conversations) :
                            \E k \in 1..Len(c.participants) :
                                c.participants[k] = LowerCase(u)}
                    ELSE Range(conversations)
        IN  /\ Range(res) = want
            /\ Len(res) = Cardinality(want)
            /\ \A i, j \in 1..Len(res) :
                  i < j => res[i].updated_at >= res[j].updated_at

\* C9 witness: a conversation that received a message after a later-created
\* one was stamped is listed first, and the filter leaves a conversation out.
C9_Witness ==
    /\ Len(conversations) >= 2
    /\ conversations[1].last_message # None
    /\ conversations[1].updated_at > conversations[2].updated_at
    /\ list_conversations(<<>>)[1] = conversations[1]
    /\ Len(list_conversations(UserA)) < Len(conversations)
    /\ Len(list_conversations(UserA)) > 0

(***************************************************************************)
(* Email: properties                                                       *)
(***************************************************************************)
SameContent(e, d) ==
    /\ e.sender = d.sender /\ e.to = d.to /\ e.cc = d.cc /\ e.bcc = d.bcc
    /\ e.subject = d.subject /\ e.body = d.body

Occurrences(seq, x) == Cardinality({k \in 1..Len(seq) : seq[k] = x})

AllAddresses == {"a@x.com", "b@x.com", "c@x.com", "d@x.com"}

\* The records of the store that the send of request r has written.
Mine(r) ==
    {i \in 1..Len(emails) :
        emails[i]._id \in {reqs[r].email_doc._id} \cup Range(reqs[r].inserted_ids)}

\* What C1 says of one step of request r.
C1_Step(r) ==
    /\ \A p \in SendEmailInputs : CreateEmailStart(r, p) => emails' = emails
    /\ CreateEmailStamp(r) => emails' = emails
    /\ CreateEmailNow(r) => emails' = emails
    /\ CreateEmailInsert(r) =>
          /\ Len(emails') = Len(emails) + 1
          /\ SubSeq(emails', 1, Len(emails)) = emails
          /\ LET e == emails'[Len(emails')]
             IN  /\ e._id \notin Ids(emails)
                 /\ e.folder = "sent" /\ "owner" \notin DOMAIN e
                 /\ e.read = FALSE
                 /\ SameContent(e, reqs[r].payload)
    /\ CreateEmailInsertMany(r) =>
          /\ Len(emails') = Len(emails) + 1
          /\ SubSeq(emails', 1, Len(emails)) = emails
          /\ LET e == emails'[Len(emails')]
                 k == Len(reqs[r].inserted_ids) + 1
             IN  /\ e._id \notin Ids(emails)
                 /\ e.folder = "inbox" /\ e.read = FALSE
                 /\ k <= Len(reqs[r].payload.to)
                 /\ e.owner = reqs[r].payload.to[k]
                 /\ SameContent(e, reqs[r].payload)
    /\ CreateEmailFetch(r) =>
          /\ emails' = emails
          /\ resp' = [op |-> "create_email", status |-> 200,
                       id |-> OidStr(reqs[r].email_doc._id)]
          /\ Cardinality(Mine(r)) = Len(reqs[r].payload.to) + 1
          /\ Cardinality({i \in Mine(r) : "owner" \notin DOMAIN emails[i]}) = 1
          /\ \A a \in AllAddresses :
                /\ Cardinality({i \in Mine(r) : "owner" \in DOMAIN emails[i]
                                                /\ emails[i].owner = a})
                     = Occurrences(reqs[r].payload.to, a)
                /\ LET box == list_emails(a, "inbox")
                   IN  Cardinality({k \in 1..Len(box) :
                          box[k]._id \in {emails[i]._id : i \in Mine(r)}})
                         = Occurrences(reqs[r].payload.to, a)

\* C1: a create_email that completes has added one sent record without
\* owner and one unread inbox copy per entry of to, owned by that entry and
\* with the same content, and none for an address only in cc or bcc;
\* list_emails(owner, "inbox") shows each recipient its copies of the send.
C1_FanOut == [][\A r \in Slots : C1_Step(r)]_vars

\* C1 witness: the send to b and c with d in cc was answered 200: three
\* records, one inbox copy each for b and c, none for d.
C1_Witness ==
    /\ Len(emails) = 3
    /\ resp = [op |-> "create_email", status |-> 200,
               id |-> OidStr(emails[1]._id)]
    /\ emails[1].folder = "sent" /\ emails[1].cc = <<"d@x.com">>
    /\ Len(list_emails("b@x.com", "inbox")) = 1
    /\ Len(list_emails("c@x.com", "inbox")) = 1
    /\ list_emails("d@x.com", "") = <<>>
    /\ Len(list_emails("", "sent")) = 1

\* What C5 says of one step of request r.
C5_Step(r) ==
    /\ \A id \in EmailIdInputs, p \in UpdateInputs :
          UpdateEmailStart(r, id, p) => emails' = emails
    /\ UpdateEmailFetch(r) =>
          /\ emails' = emails
          /\ resp' = [op |-> "update_email", status |-> 200,
                       id |-> OidStr(reqs[r].email_id)]
    /\ UpdateEmailUpdate(r) =>
          LET q == reqs[r]
              hit == {i \in 1..Len(emails) : emails[i]._id = q.email_id}
          IN  /\ Len(emails') = Len(emails)
              /\ \A i \in 1..Len(emails) : i \notin hit => emails'[i] = emails[i]
              /\ \A i \in hit :
                    /\ DOMAIN emails'[i] = DOMAIN emails[i]
                    /\ \A k \in DOMAIN emails[i] \ {"read", "folder", "updated_at"} :
                          emails'[i][k] = emails[i][k]
                    /\ emails'[i].updated_at = q.now
                    /\ emails'[i].read = IF "read" \in DOMAIN q.payload
                                         THEN q.payload.read ELSE emails[i].read
                    /\ emails'[i].folder = IF "folder" \in DOMAIN q.payload
                                           THEN q.payload.folder
                                           ELSE emails[i].folder
              /\ hit = {} =>
                    /\ emails' = emails
                    /\ Free(r)'
                    /\ resp' = [op |-> "update_email", status |-> 404]
              /\ hit # {} => ~Free(r)'

\* C5: update_email changes, of the one record with the id, the supplied
\* fields among read and folder and sets updated_at to the time it read;
\* every other field and every other record stays; with an id no record has
\* it answers 404 and the store stays as it was.
C5_PatchFrame == [][\A r \in Slots : C5_Step(r)]_vars

\* C5 witness: one inbox copy was marked read and then moved to trash, by
\* two patches; the other copy and the sent record of the same send are as
\* they were created.
C5_Witness ==
    /\ resp.op = "update_email" /\ resp.status = 200
    /\ Len(emails) = 3
    /\ \E i, j \in 2..3 :
          /\ i # j
          /\ emails[i].folder = "trash" /\ emails[i].read = TRUE
          /\ emails[i].updated_at > emails[i].created_at
          /\ emails[j].folder = "inbox" /\ emails[j].read = FALSE
          /\ emails[j].updated_at = emails[j].created_at
    /\ emails[1].folder = "sent" /\ emails[1].read = FALSE

\* C6: the folder of every stored email record is one of inbox, sent,
\* drafts, trash, archived.
C6_FolderIsEnum ==
    \A i \in 1..Len(emails) : emails[i].folder \in Folders

\* Every inbox copy comes after a sent record with its content.
C7_InboxCopyHasSentRecord ==
    \A i \in 1..Len(emails) :
        "owner" \in DOMAIN emails[i] =>
            \E j \in 1..(i - 1) :
                /\ "owner" \notin DOMAIN emails[j]
                /\ emails[j].folder = "sent"
                /\ SameContent(emails[j], emails[i])
                /\ emails[j].created_at <= emails[i].created_at

\* C7: an inbox copy is in the store only after the sent record of its send,
\* and no step takes a record out again: a send that stops part-way leaves
\* its sent record and the copies written so far.
C7_NonAtomicFanOut ==
    /\ []C7_InboxCopyHasSentRecord
    /\ [][Len(emails') >= Len(emails)
          /\ SubSeq(emails', 1, Len(emails)) = emails]_vars

\* C7 witness: a send to two recipients failed after its first copy; no
\* request is in flight, the sent record and one copy are all there is.
C7_Witness ==
    /\ resp = [op |-> "create_email", status |-> 500]
    /\ \A r \in Slots : Free(r)
    /\ Len(emails) = 2
    /\ "owner" \notin DOMAIN emails[1] /\ Len(emails[1].to) = 2
    /\ "owner" \in DOMAIN emails[2] /\ emails[2].owner = emails[1].to[1]

(***************************************************************************)
(* serialize_id: properties                                                *)
(***************************************************************************)

\* C10 as stated: on a document without _id, serialize_id returns its input
\* unchanged, timestamps and lists of identifiers included.
C10_UnchangedWithoutId ==
    (scount = 1 /\ "_id" \notin DOMAIN sdoc) => sout = sdoc

\* C10: serialize_id is idempotent; on a document without _id it adds no id
\* field and returns the input with timestamps as text and the ObjectIds in
\* lists as strings, every other value as it was: unchanged when the
\* document holds neither (or is empty).
C10_Serialize ==
    /\ scount >= 2 => sout = sprev
    /\ (scount = 1 /\ "_id" \notin DOMAIN sdoc) =>
          /\ DOMAIN sout = DOMAIN sdoc
          /\ \A k \in DOMAIN sdoc :
                /\ sdoc[k].t \notin {"dt", "list"} => sout[k] = sdoc[k]
                /\ sdoc[k].t = "dt" => sout[k].t = "str"
                /\ sdoc[k].t = "list" =>
                      /\ sout[k].t = "list"
                      /\ Len(sout[k].items) = Len(sdoc[k].items)
                      /\ \A i \in 1..Len(sdoc[k].items) :
                            IF sdoc[k].items[i].t = "oid"
                            THEN sout[k].items[i] = StrVal(sdoc[k].items[i].v)
                            ELSE sout[k].items[i] = sdoc[k].items[i]

\* C10 witness: a stored document with _id, a timestamp and a list of
\* ObjectIds was serialized twice; the first call changed it, the second
\* did not.
C10_Witness ==
    /\ scount = 2
    /\ {"_id", "created_at", "participants"} \subseteq DOMAIN sdoc
    /\ sdoc["created_at"].t = "dt"
    /\ \E i \in 1..Len(sdoc["participants"].items) :
          sdoc["participants"].items[i].t = "oid"
    /\ sout # sdoc
    /\ sout = sprev
    /\ sout["id"] = StrVal(OidStr(sdoc["_id"].v))

====
